---- MODULE Spec2Model ----
(***************************************************************************)
(* A model of the LC-3 virtual machine of bbonenfant/LC3: the library      *)
(* crate (src/lib.rs, memory.rs, registers.rs, io.rs).  Words are 16-bit   *)
(* unsigned integers, memory is the 65 536-word array of memory.rs held    *)
(* sparsely (a cell that is absent holds 0), and the host's get_char is an *)
(* oracle: each call of a step draws the next byte of a sequence chosen    *)
(* for that step.                                                          *)
(*                                                                         *)
(* Two things of the build decide behaviour and are part of the state:     *)
(*   target   "unix" or "wasm" (the cfg(target_family) of lib.rs);         *)
(*   checked  whether integer overflow panics (Rust's overflow-checks, on  *)
(*            in a debug build, off in a release build, where +=, -= and   *)
(*            << wrap).                                                    *)
(***************************************************************************)
EXTENDS Integers, Sequences, FiniteSets

VARIABLES
    target,     \* "unix" | "wasm"
    checked,    \* overflow checks of the build
    halted,     \* VM.halted
    memory,     \* VM.memory: sparse [address -> nonzero word]
    registers,  \* VM.registers: [r, program_count, condition]
    fault,      \* the process has panicked
    driver,     \* "idle" | "run" | "run_wasm": the loop the caller is in
    last,       \* what the most recent call of step did (NoStep before it)
    prev,       \* the value of last before that call
    nsteps,     \* steps executed since construction
    nloads,     \* images loaded since construction
    ld,         \* what the most recent call of read_image did
    mop,        \* the most recent direct Memory operations (SpecMem)
    sx          \* the most recent direct call of sign_extend (SpecSext)

vars == <<target, checked, halted, memory, registers, fault, driver,
          last, prev, nsteps, nloads, ld, mop, sx>>

----------------------------------------------------------------------------
(* Program constants *)

MEMORY_SIZE == 65536
KEYBOARD_STATUS_ADDR == \HFE00
KEYBOARD_DATA_ADDR == \HFE02
KEYBOARD_CHECK_ADDR == \HFE04

OP_BR == 0
OP_ADD == 1
OP_LD == 2
OP_ST == 3
OP_JSR == 4
OP_AND == 5
OP_LDR == 6
OP_STR == 7
OP_RTI == 8
OP_NOT == 9
OP_LDI == 10
OP_STI == 11
OP_JMP == 12
OP_RES == 13
OP_LEA == 14
OP_TRAP == 15

TRAP_GETC == \H20
TRAP_OUT == \H21
TRAP_PUTS == \H22
TRAP_IN == \H23
TRAP_PUTSP == \H24
TRAP_HALT == \H25

FLAG_P == 1
FLAG_Z == 2
FLAG_N == 4

DEFAULT_PC == \H3000

----------------------------------------------------------------------------
(* Bounds of the model *)

\* get_char results a step's oracle fixes; later calls find no input (0).
MaxPolls == 2
\* steps executed since construction
MaxSteps == 4
\* images loaded since construction
MaxLoads == 1
\* data words of an image handed to read_image in SpecImage
MaxImageWords == 4
\* direct Memory operations in SpecMem
MaxMemOps == 3

----------------------------------------------------------------------------
(* 16-bit words and Rust's operators on them *)

U16(x) == x % 65536

\* x >> n on u16
Shr(x, n) == x \div (2 ^ n)

RECURSIVE BitAnd(_, _)
\* x & y
BitAnd(x, y) ==
    IF x = 0 \/ y = 0 THEN 0
    ELSE (x % 2) * (y % 2) + 2 * BitAnd(x \div 2, y \div 2)

\* x | y
BitOr(x, y) == x + y - BitAnd(x, y)

\* !x on u16
BitNot(x) == 65535 - x

\* fn sign_extend(orig: u16, bit_count: u8) -> u16, where overflow wraps: the
\* shift amount of 0xFFFF << bit_count is taken modulo 16.
sign_extend(orig, bit_count) ==
    IF Shr(orig, bit_count - 1) % 2 = 1
    THEN BitOr(orig, U16(65535 * (2 ^ (bit_count % 16))))
    ELSE orig

\* 0xFFFF << bit_count overflows: the shift amount is not below the width of
\* u16, a panic where overflow is checked
shl_overflows(orig, bit_count) ==
    Shr(orig, bit_count - 1) % 2 = 1 /\ bit_count >= 16

\* u16::from_be_bytes
from_be_bytes(b0, b1) == b0 * 256 + b1

----------------------------------------------------------------------------
(* Memory (memory.rs).  The operations act on a context s, the record a    *)
(* step threads through its calls: the VM's memory and registers, the      *)
(* host's oracle and what the step has done so far.                        *)

\* self.0[addr]
MemGet(m, addr) == IF addr \in DOMAIN m THEN m[addr] ELSE 0

\* self.0[addr] = val
MemPut(m, addr, val) ==
    IF val = 0
    THEN [x \in DOMAIN m \ {addr} |-> m[x]]
    ELSE [x \in DOMAIN m \cup {addr} |-> IF x = addr THEN val ELSE m[x]]

\* Memory::default
EmptyMemory == [x \in {} |-> 0]

\* io::get_char: the next byte of the oracle, 0 when it is used up
get_char(s) ==
    LET k == Len(s.polls) + 1
        c == IF k <= Len(s.host) THEN s.host[k] ELSE 0
    IN  [s EXCEPT !.polls = Append(@, c), !.val = c]

\* io::put_char
put_char(s, c) == [s EXCEPT !.out = Append(@, c)]

\* the head of Memory::read: self.0[KEYBOARD_CHECK_ADDR] = flag
MarkRead(s, addr, flag) ==
    [s EXCEPT !.reads = @ \cup {addr},
              !.memory = MemPut(@, KEYBOARD_CHECK_ADDR, flag)]

\* a poll that leaves the status register as it is when no byte is waiting
PollNoClear(s) ==
    IF s.val # 0
    THEN [s EXCEPT !.memory = MemPut(MemPut(@, KEYBOARD_STATUS_ADDR, 32768),
                                     KEYBOARD_DATA_ADDR, s.val)]
    ELSE s

\* the poll of Memory::read, s.val the byte get_char returned
Poll(s) ==
    IF s.val # 0
    THEN [s EXCEPT !.memory = MemPut(MemPut(@, KEYBOARD_STATUS_ADDR, 32768),
                                     KEYBOARD_DATA_ADDR, s.val)]
    ELSE [s EXCEPT !.memory = MemPut(@, KEYBOARD_STATUS_ADDR, 0)]

\* the tail of Memory::read: self.0[addr as usize]
Load(s, addr) == [s EXCEPT !.val = MemGet(s.memory, addr)]

\* Memory::read: the word read is left in .val
read(s, addr) ==
    IF addr = KEYBOARD_STATUS_ADDR
    THEN Load(Poll(get_char(MarkRead(s, addr, 1))), addr)
    ELSE Load(MarkRead(s, addr, 0), addr)

\* Memory::write
write(s, addr, val) ==
    [s EXCEPT !.memory = MemPut(@, addr, val), !.writes = @ \cup {addr}]

\* Memory::kbstatus
kbstatus(s) == MemGet(s.memory, KEYBOARD_CHECK_ADDR)

----------------------------------------------------------------------------
(* Registers (registers.rs) *)

\* Registers::default
DefaultRegisters ==
    [r |-> [i \in 0..7 |-> 0], program_count |-> DEFAULT_PC, condition |-> FLAG_Z]

\* Registers::get
get(s, r) == s.registers.r[r % 8]

\* a match on the value without the arm of the positive words
ConditionOfNoP(value) ==
    IF value = 0 THEN FLAG_Z
    ELSE IF value >= 32768 THEN FLAG_N
    ELSE 0

\* the condition flag Registers::set derives from the value written
ConditionOf(value) ==
    IF value = 0 THEN FLAG_Z
    ELSE IF value >= 32768 THEN FLAG_N
    ELSE FLAG_P

\* Registers::set
set(s, r, value) ==
    [s EXCEPT !.registers.r[r % 8] = value,
              !.registers.condition = ConditionOf(value)]

\* self.program_count += 1 and c += 1: a panic when checked, a wrap otherwise
AddOne(s, x) ==
    IF x = 65535
    THEN IF checked THEN [s EXCEPT !.fault = TRUE, !.val = x]
         ELSE [s EXCEPT !.val = 0]
    ELSE [s EXCEPT !.val = x + 1]

\* a rollback that leaves the program counter where the fetch put it
SubOneKeep(s, x) == [s EXCEPT !.val = x]

\* self.registers.program_count -= 1
SubOne(s, x) ==
    IF x = 0
    THEN IF checked THEN [s EXCEPT !.fault = TRUE, !.val = x]
         ELSE [s EXCEPT !.val = 65535]
    ELSE [s EXCEPT !.val = x - 1]

\* let instruction = memory.read(pc), after PC took the value in s.val
Fetch(s, pc) ==
    IF s.fault THEN s
    ELSE read([s EXCEPT !.registers.program_count = s.val], pc)

\* the instruction word read is kept in .instr
Latch(s) == [s EXCEPT !.instr = s.val]

\* Registers::next
next(s) ==
    Latch(Fetch(AddOne(s, s.registers.program_count), s.registers.program_count))

----------------------------------------------------------------------------
(* VM::step (lib.rs) *)

\* the context a call of step starts from: the VM and the host's oracle
Ctx(host) ==
    [memory |-> memory, registers |-> registers, fault |-> FALSE,
     reads |-> {}, writes |-> {}, polls |-> <<>>, out |-> <<>>,
     host |-> host, trapc |-> -1, instr |-> 0, val |-> 0, status |-> "None",
     invalid |-> FALSE]

\* return STATUS::...
Return(s, status) == [s EXCEPT !.status = status]

\* an operand whose immediate is taken without sign extension
OperandNoSext(s, instr) ==
    IF Shr(instr, 5) % 2 # 0
    THEN instr % 32
    ELSE get(s, instr % 8)

\* the operand of ADD and AND: sext(IMM5) or R[SR2]
Operand(s, instr) ==
    IF Shr(instr, 5) % 2 # 0
    THEN sign_extend(instr % 32, 5)
    ELSE get(s, instr % 8)

\* an offset taken from the address of the instruction, not from the PC the
\* fetch left
PcOffset9FromInstr(s, instr) ==
    U16(s.registers.program_count + 65535 + sign_extend(instr % 512, 9))

\* PC + sext(PCoffset9)
PcOffset9(s, instr) ==
    U16(s.registers.program_count + sign_extend(instr % 512, 9))

\* R[BaseR] + sext(offset6)
BaseOffset6(s, instr) ==
    U16(get(s, Shr(instr, 6) % 8) + sign_extend(instr % 64, 6))

\* self.registers.set(dr, <the word just read>)
SetRead(s, dr) == set(s, dr, s.val)

\* a single indirection: the pointer itself is what the register takes
ReadReadOnce(s) == s

\* self.memory.read(<the word just read>)
ReadRead(s) == read(s, s.val)

\* self.memory.write(<the word just read>, R[sr])
WriteRead(s, sr) == write(s, s.val, get(s, sr))

\* a link to the address of the instruction, not to the PC the fetch left
LinkR7PreFetch(s) ==
    [s EXCEPT !.registers.r[7] = U16(s.registers.program_count + 65535)]

\* self.registers.r7 = self.registers.program_count
LinkR7(s) == [s EXCEPT !.registers.r[7] = s.registers.program_count]

\* the two arms of OP::JSR after R7 is written
Jump(s, instr) ==
    IF Shr(instr, 11) % 2 # 0
    THEN [s EXCEPT !.registers.program_count =
             U16(@ + sign_extend(instr % 2048, 11))]
    ELSE [s EXCEPT !.registers.program_count = get(s, Shr(instr, 6) % 8)]

\* return STATUS::HardInterrupt, after PC took the value in s.val
Suspend(s) ==
    IF s.fault THEN s
    ELSE Return([s EXCEPT !.registers.program_count = s.val], "HardInterrupt")

\* an input TRAP that writes the field r0 itself, as the TRAP writes r7,
\* instead of calling set
AfterCharNoFlags(s, echo) ==
    IF s.val = 0
    THEN Suspend(SubOne([s EXCEPT !.trapc = 0], s.registers.program_count))
    ELSE [(IF echo THEN put_char(s, s.val) ELSE s)
             EXCEPT !.trapc = s.val, !.registers.r[0] = s.val]

\* TRAP GETC and TRAP IN after let c = io::get_char(), c in s.val; echo is
\* TRUE for IN
AfterChar(s, echo) ==
    IF s.val = 0
    THEN Suspend(SubOne([s EXCEPT !.trapc = 0], s.registers.program_count))
    ELSE set(IF echo THEN put_char([s EXCEPT !.trapc = s.val], s.val)
                     ELSE [s EXCEPT !.trapc = s.val],
             0, s.val)

\* io::put_char(self.memory.read(c) as u8), the word read in s.val
EmitLow(s) == put_char(s, s.val % 256)

\* if c2 != 0 { io::put_char(c2 as u8) }, the word read in s.val
EmitHigh(s) == IF Shr(s.val, 8) # 0 THEN put_char(s, Shr(s.val, 8) % 256) ELSE s

RECURSIVE puts_loop(_, _)
\* the loop again after c += 1 left the new c in s.val
PutsNext(s) == IF s.fault THEN s ELSE puts_loop(s, s.val)

\* the body of the loop of TRAP PUTS, the word of the condition in s.val
PutsBody(s, c) ==
    IF s.val = 0 THEN s ELSE PutsNext(AddOne(EmitLow(read(s, c)), c))

\* TRAP PUTS: while self.memory.read(c) != 0 { put_char; c += 1 }
puts_loop(s, c) == PutsBody(read(s, c), c)

RECURSIVE putsp_loop(_, _)
\* the loop again after c += 1 left the new c in s.val
PutspNext(s) == IF s.fault THEN s ELSE putsp_loop(s, s.val)

\* the body of the loop of TRAP PUTSP, the word of the condition in s.val
PutspBody(s, c) ==
    IF s.val = 0 THEN s
    ELSE PutspNext(AddOne(EmitHigh(read(EmitLow(read(s, c)), c)), c))

\* TRAP PUTSP
putsp_loop(s, c) == PutspBody(read(s, c), c)

\* a match on the trap vector whose None arm prints and goes on
ServiceSkipUnknown(s, vec) ==
    CASE vec = TRAP_GETC  -> AfterChar(get_char(s), FALSE)
      [] vec = TRAP_OUT   -> put_char(s, s.registers.r[0] % 256)
      [] vec = TRAP_PUTS  -> puts_loop(s, s.registers.r[0])
      [] vec = TRAP_IN    -> AfterChar(get_char(s), TRUE)
      [] vec = TRAP_PUTSP -> putsp_loop(s, s.registers.r[0])
      [] vec = TRAP_HALT  -> Return(s, "Halted")
      [] OTHER            -> s

\* the match on the trap vector, after R7 is written
Service(s, vec) ==
    CASE vec = TRAP_GETC  -> AfterChar(get_char(s), FALSE)
      [] vec = TRAP_OUT   -> put_char(s, s.registers.r[0] % 256)
      [] vec = TRAP_PUTS  -> puts_loop(s, s.registers.r[0])
      [] vec = TRAP_IN    -> AfterChar(get_char(s), TRUE)
      [] vec = TRAP_PUTSP -> putsp_loop(s, s.registers.r[0])
      [] vec = TRAP_HALT  -> Return(s, "Halted")
      [] OTHER            -> Return(s, "Halted")

\* the match on op of step
Exec(s, instr) ==
    LET op  == Shr(instr, 12)
        dr  == Shr(instr, 9) % 8
        sr1 == Shr(instr, 6) % 8
    IN  CASE op = OP_ADD -> set(s, dr, U16(get(s, sr1) + Operand(s, instr)))
          [] op = OP_AND -> set(s, dr, BitAnd(get(s, sr1), Operand(s, instr)))
          [] op = OP_NOT -> set(s, dr, BitNot(get(s, sr1)))
          [] op = OP_BR  ->
                IF BitAnd(dr, s.registers.condition) # 0
                THEN [s EXCEPT !.registers.program_count = PcOffset9(s, instr)]
                ELSE s
          [] op = OP_JMP -> [s EXCEPT !.registers.program_count = get(s, sr1)]
          [] op = OP_JSR -> Jump(LinkR7(s), instr)
          [] op = OP_LD  -> SetRead(read(s, PcOffset9(s, instr)), dr)
          [] op = OP_LDI -> SetRead(ReadRead(read(s, PcOffset9(s, instr))), dr)
          [] op = OP_LDR -> SetRead(read(s, BaseOffset6(s, instr)), dr)
          [] op = OP_LEA -> set(s, dr, PcOffset9(s, instr))
          [] op = OP_ST  -> write(s, PcOffset9(s, instr), get(s, dr))
          [] op = OP_STI -> WriteRead(read(s, PcOffset9(s, instr)), dr)
          [] op = OP_STR -> write(s, BaseOffset6(s, instr), get(s, dr))
          [] op = OP_TRAP -> Service(LinkR7(s), instr % 256)
          [] op = OP_RES -> Return(s, "Halted")
          [] op = OP_RTI -> Return(s, "Halted")
          [] OTHER       -> Return(s, "Halted")

\* an enum OP without the variant of the reserved opcode
OpCodesNoReserved ==
    {OP_BR, OP_ADD, OP_LD, OP_ST, OP_JSR, OP_AND, OP_LDR, OP_STR, OP_RTI,
     OP_NOT, OP_LDI, OP_STI, OP_JMP, OP_LEA, OP_TRAP}

\* the discriminants of enum OP
OpCodes ==
    {OP_BR, OP_ADD, OP_LD, OP_ST, OP_JSR, OP_AND, OP_LDR, OP_STR, OP_RTI,
     OP_NOT, OP_LDI, OP_STI, OP_JMP, OP_RES, OP_LEA, OP_TRAP}

\* OP::from_u16(instruction >> 12): the opcode, or -1 for None
OP_from_u16(n) == IF n \in OpCodes THEN n ELSE -1

\* the None arm of the match on the decoded opcode: "invalid operation"
InvalidOperation(s) == Return([s EXCEPT !.invalid = TRUE], "Halted")

\* the match on the decoded opcode and the match on op, unless the fetch
\* panicked
Dispatch(s) ==
    IF s.fault THEN s
    ELSE IF OP_from_u16(Shr(s.instr, 12)) = -1 THEN InvalidOperation(s)
    ELSE Exec(s, s.instr)

\* a tail that reports a pending key as a hard interrupt
StatusTailHard(s) ==
    IF s.fault \/ s.status # "None" THEN s
    ELSE IF target = "wasm" /\ kbstatus(s) # 0
    THEN Return(s, "HardInterrupt")
    ELSE Return(s, "Continue")

\* the status step ends with when no arm of the match returned
StatusTail(s) ==
    IF s.fault \/ s.status # "None" THEN s
    ELSE IF target = "wasm" /\ kbstatus(s) # 0
    THEN Return(s, "SoftInterrupt")
    ELSE Return(s, "Continue")

\* VM::step under the oracle host: the context it ends in
step(host) == StatusTail(Dispatch(next(Ctx(host))))

----------------------------------------------------------------------------
(* read_image (lib.rs).  An image is the sequence of the stream's bytes;   *)
(* read_exact fails with UnexpectedEof when fewer than two bytes are left. *)

RECURSIVE image_loop(_, _, _, _, _)
\* for offset in 0..max_offset { read_exact or break; memory.write(addr + offset, ..) }
image_loop(acc, image, addr, offset, max_offset) ==
    IF offset >= max_offset THEN acc
    ELSE IF Len(image) < 2 * offset + 4 THEN acc
    ELSE LET a == addr + offset
             w == from_be_bytes(image[2 * offset + 3], image[2 * offset + 4])
         IN  IF a > 65535 /\ checked THEN [acc EXCEPT !.fault = TRUE]
             ELSE image_loop([acc EXCEPT !.memory = MemPut(@, U16(a), w),
                                         !.written = @ \cup {U16(a)}],
                             image, addr, offset + 1, max_offset)

\* a loop bounded by the range of u16 alone, not by the end of memory
MaxOffsetAny(addr) == 65535

\* let max_offset = (memory::MEMORY_SIZE - (addr as usize)) as u16
MaxOffset(addr) == U16(MEMORY_SIZE - addr)

\* read_image(memory, image): ok is Ok(addr), ~ok is Err
read_image(m, image) ==
    IF Len(image) < 2
    THEN [ok |-> FALSE, addr |-> 0, memory |-> m, written |-> {}, fault |-> FALSE]
    ELSE LET addr == from_be_bytes(image[1], image[2])
         IN  image_loop([ok |-> TRUE, addr |-> addr, memory |-> m,
                         written |-> {}, fault |-> FALSE],
                        image, addr, 0, MaxOffset(addr))

----------------------------------------------------------------------------
(* The records kept of the most recent calls *)

NoStep ==
    [kind |-> "none", pc |-> 0, registers |-> DefaultRegisters,
     memory |-> EmptyMemory, instr |-> 0, reads |-> {}, writes |-> {},
     polls |-> <<>>, out |-> <<>>, trapc |-> -1, status |-> "None",
     invalid |-> FALSE]

\* what a call of step that ended in context s did
StepRecord(s) ==
    [kind |-> "step", pc |-> registers.program_count, registers |-> registers,
     memory |-> memory, instr |-> s.instr, reads |-> s.reads, writes |-> s.writes,
     polls |-> s.polls, out |-> s.out, trapc |-> s.trapc, status |-> s.status,
     invalid |-> s.invalid]

NoLoad == [kind |-> "none", image |-> <<>>, ok |-> FALSE, addr |-> 0, written |-> {}]

LoadRecord(image, ri) ==
    [kind |-> "load", image |-> image, ok |-> ri.ok, addr |-> ri.addr,
     written |-> ri.written]

NoMemOp ==
    [kind |-> "none", addr |-> 0, val |-> 0, ret |-> 0, after |-> "none", n |-> 0,
     polls |-> <<>>, before |-> EmptyMemory]

NoSext == [kind |-> "none", orig |-> 0, bit_count |-> 1, ret |-> 0, again |-> 0]

----------------------------------------------------------------------------
(* The inputs *)

\* the bytes the host hands out: none (0), a letter, a byte with bit 7 set
InputBytes == {0, \H41, \HFF}

RECURSIVE SeqsOf(_, _)
\* the sequences over S of length n
SeqsOf(S, n) ==
    IF n = 0 THEN {<<>>}
    ELSE {Append(q, x) : q \in SeqsOf(S, n - 1), x \in S}

\* the sequences over S of length at most n
SeqsUpTo(S, n) == UNION {SeqsOf(S, k) : k \in 0..n}

\* the oracles of a step
Hosts == SeqsOf(InputBytes, MaxPolls)

RECURSIVE Encode(_)
\* the big-endian bytes of a sequence of words
Encode(words) ==
    IF words = <<>> THEN <<>>
    ELSE <<Head(words) \div 256, Head(words) % 256>> \o Encode(Tail(words))

\* the object image of a program: the origin, then the words
ImageOf(origin, words) == Encode(<<origin>> \o words)

\* the programs loaded in Spec, as [origin, words]
Programs ==
    {   \* HALT
        [origin |-> \H3000, words |-> <<\HF025>>],
        \* GETC; IN; HALT
        [origin |-> \H3000, words |-> <<\HF020, \HF023, \HF025>>],
        \* IN
        [origin |-> \H3000, words |-> <<\HF023>>],
        \* GETC in the last cell of memory
        [origin |-> \HFFFF, words |-> <<\HF020>>],
        \* GETC; IN in the last two cells of memory
        [origin |-> \HFFFE, words |-> <<\HF020, \HF023>>],
        \* LD R0,#0 at 0xFDFF: loads the keyboard status register
        [origin |-> \HFDFF, words |-> <<\H2000>>],
        \* LDI R0,#0 at 0xFDFF: the pointer is the keyboard status register
        [origin |-> \HFDFF, words |-> <<\HA000>>],
        \* LDI R0,#1; HALT; .FILL xFE00: polls the keyboard through a pointer
        [origin |-> \H3000, words |-> <<\HA001, \HF025, \HFE00>>],
        \* LEA R0,#0; ST R0,#0 at 0xFE02: stores 0xFE03 to 0xFE04
        [origin |-> \HFE02, words |-> <<\HE000, \H3000>>],
        \* LEA R0,#2; PUTS; HALT; "Hi"
        [origin |-> \H3000,
         words |-> <<\HE002, \HF022, \HF025, \H0048, \H0069, \H0000>>]
    }

\* the images loaded in Spec: the programs, and streams too short for an origin
Images ==
    {ImageOf(p.origin, p.words) : p \in Programs} \cup {<<>>, <<\H30>>}

----------------------------------------------------------------------------
(* The VM's operations *)

Idle == [loop |-> "idle", stepped |-> FALSE]

Init ==
    /\ target \in {"unix", "wasm"}
    /\ checked \in BOOLEAN
    /\ halted = FALSE
    /\ memory = EmptyMemory
    /\ registers = DefaultRegisters
    /\ fault = FALSE
    /\ driver = Idle
    /\ last = NoStep
    /\ prev = NoStep
    /\ nsteps = 0
    /\ nloads = 0
    /\ ld = NoLoad
    /\ mop = NoMemOp
    /\ sx = NoSext

\* one call of step and what it leaves in the VM
DoStep(s) ==
    /\ memory' = s.memory
    /\ registers' = s.registers
    /\ fault' = s.fault
    /\ last' = StepRecord(s)
    /\ prev' = last
    /\ nsteps' = nsteps + 1
    /\ UNCHANGED <<target, checked, nloads, ld, mop, sx>>

\* vm.step() called by the host itself
StepCall ==
    /\ driver.loop = "idle" /\ ~fault /\ nsteps < MaxSteps
    /\ \E host \in Hosts : DoStep(step(host))
    /\ UNCHANGED <<halted, driver>>

\* vm.run() is entered
RunCall ==
    /\ target = "unix" /\ driver.loop = "idle" /\ ~fault
    /\ driver' = [loop |-> "run", stepped |-> FALSE]
    /\ UNCHANGED <<target, checked, halted, memory, registers, fault,
                   last, prev, nsteps, nloads, ld, mop, sx>>

\* VM::run: one test of the loop's condition and, when it holds, one iteration
RunIter ==
    /\ driver.loop = "run" /\ ~fault
    /\ IF halted
       THEN /\ driver' = Idle
            /\ UNCHANGED <<target, checked, halted, memory, registers, fault,
                           last, prev, nsteps, nloads, ld, mop, sx>>
       ELSE /\ nsteps < MaxSteps
            /\ \E host \in Hosts :
                 LET s == step(host)
                 IN  /\ DoStep(s)
                     /\ halted' = IF s.status = "Halted" THEN FALSE ELSE halted
            /\ driver' = [driver EXCEPT !.stepped = TRUE]

\* vm.run_wasm() is entered
RunWasmCall ==
    /\ target = "wasm" /\ driver.loop = "idle" /\ ~fault
    /\ driver' = [loop |-> "run_wasm", stepped |-> FALSE]
    /\ UNCHANGED <<target, checked, halted, memory, registers, fault,
                   last, prev, nsteps, nloads, ld, mop, sx>>

\* VM::run_wasm: one test of the loop's condition and, when it holds, one iteration
RunWasmIter ==
    /\ driver.loop = "run_wasm" /\ ~fault
    /\ IF halted
       THEN /\ driver' = Idle
            /\ UNCHANGED <<target, checked, halted, memory, registers, fault,
                           last, prev, nsteps, nloads, ld, mop, sx>>
       ELSE /\ nsteps < MaxSteps
            /\ \E host \in Hosts :
                 LET s == step(host)
                 IN  /\ DoStep(s)
                     /\ halted' = IF s.status = "Halted" THEN TRUE ELSE halted
                     /\ driver' = IF s.status \in {"SoftInterrupt", "HardInterrupt"}
                                  THEN Idle
                                  ELSE [driver EXCEPT !.stepped = TRUE]

\* VM::load_file: read_image into the VM's memory
LoadFile(image) ==
    /\ target = "unix" /\ driver.loop = "idle" /\ ~fault /\ nloads < MaxLoads
    /\ LET ri == read_image(memory, image)
       IN  /\ ld' = LoadRecord(image, ri)
           /\ fault' = ri.fault
           /\ memory' = ri.memory
           /\ IF ri.ok /\ ~ri.fault
              THEN /\ registers' = [registers EXCEPT !.program_count = ri.addr]
                   /\ last' = NoStep /\ prev' = NoStep /\ nsteps' = 0
              ELSE UNCHANGED <<registers, last, prev, nsteps>>
    /\ nloads' = nloads + 1
    /\ UNCHANGED <<target, checked, halted, driver, mop, sx>>

\* VM::load_wasm: read_image into a new memory, which replaces the VM's on Ok
LoadWasm(image) ==
    /\ target = "wasm" /\ driver.loop = "idle" /\ ~fault
    /\ LET ri == read_image(EmptyMemory, image)
       IN  /\ ld' = LoadRecord(image, ri)
           /\ fault' = ri.fault
           /\ IF ri.ok /\ ~ri.fault
              THEN /\ memory' = ri.memory
                   /\ registers' = [DefaultRegisters EXCEPT !.program_count = ri.addr]
                   /\ halted' = FALSE
                   /\ last' = NoStep /\ prev' = NoStep /\ nsteps' = 0
                   /\ nloads' = 1
              ELSE UNCHANGED <<memory, registers, halted, last, prev, nsteps, nloads>>
    /\ UNCHANGED <<target, checked, driver, mop, sx>>

Next ==
    \/ StepCall
    \/ RunCall
    \/ RunIter
    \/ RunWasmCall
    \/ RunWasmIter
    \/ \E image \in Images : LoadFile(image)
    \/ \E image \in Images : LoadWasm(image)

Spec == Init /\ [][Next]_vars

----------------------------------------------------------------------------
(* SpecExec: images loaded into the VM and stepped by the host, over        *)
(* programs that execute every opcode and every TRAP vector                 *)

\* the words the two operands of the ADD programs take
AluWords == {\H0000, \H0001, \H7FFF, \H8000, \HFFFF}

\* LD R1,#3; LD R2,#3; ADD R0,R1,R2; ADD R3,R2,R1; .FILL a; .FILL b
AddProgram(a, b) ==
    [origin |-> \H3000, words |-> <<\H2203, \H2403, \H1042, \H1681, a, b>>]

\* AND R0,R0,#0; BRz +3; HALT; ADD R0,R0,#1; HALT
BranchProgram ==
    [origin |-> \H3000, words |-> <<\H5020, \H0403, \HF025, \H1021, \HF025>>]

ExecPrograms ==
    {   \* RTI
        [origin |-> \H3000, words |-> <<\H8000>>],
        \* RES
        [origin |-> \H3000, words |-> <<\HD000>>],
        \* TRAP x00, x1F, x26, xFF: vectors outside x20..x25
        [origin |-> \H3000, words |-> <<\HF000>>],
        [origin |-> \H3000, words |-> <<\HF01F>>],
        [origin |-> \H3000, words |-> <<\HF026>>],
        [origin |-> \H3000, words |-> <<\HF0FF>>],
        \* OUT
        [origin |-> \H3000, words |-> <<\HF021>>],
        \* NOT R0,R0; ADD R0,R0,#1; ADD R1,R1,#-1; HALT
        [origin |-> \H3000, words |-> <<\H903F, \H1021, \H127F, \HF025>>],
        \* JSR +1; HALT; HALT
        [origin |-> \H3000, words |-> <<\H4801, \HF025, \HF025>>],
        \* LEA R1,#1; JSRR R1; HALT
        [origin |-> \H3000, words |-> <<\HE201, \H4040, \HF025>>],
        \* LEA R2,#2; JMP R2; HALT; HALT; HALT
        [origin |-> \H3000, words |-> <<\HE402, \HC080, \HF025, \HF025, \HF025>>],
        \* LEA R1,#3; LDR R2,R1,#0; STR R2,R1,#1; STI R2,#0; .FILL x8001
        [origin |-> \H3000, words |-> <<\HE203, \H6440, \H7441, \HB400, \H8001>>],
        \* LEA R0,#2; PUTS; HALT; x1248, x0069, 0: a word with a high byte
        [origin |-> \H3000,
         words |-> <<\HE002, \HF022, \HF025, \H1248, \H0069, \H0000>>],
        \* LEA R0,#2; PUTSP; HALT; "Hi!"
        [origin |-> \H3000,
         words |-> <<\HE002, \HF024, \HF025, \H6948, \H0021, \H0000>>],
        \* LEA R0,#1; PUTS; "Hi" at 0xFE03 and 0xFE04
        [origin |-> \HFE01, words |-> <<\HE001, \HF022, \H0048, \H0069, \H0000>>],
        \* LEA R0,#1; PUTS; "H" in the last cell of memory
        [origin |-> \HFFFD, words |-> <<\HE001, \HF022, \H0048>>],
        \* LEA R0,#2; PUTS; HALT: the string starts at the keyboard status register
        [origin |-> \HFDFD, words |-> <<\HE002, \HF022, \HF025>>],
        \* LDI R0,#2; JSRR R7; JSR #-1; .FILL xFE00: the pointer of the LDI is
        \* the keyboard status register, the JSR jumps back to itself
        [origin |-> \H3000, words |-> <<\HA002, \H41C0, \H4FFF, \HFE00>>],
        \* LD R0,#4; STI R0,#2; LDI R1,#1; LDI R2,#-1; .FILL x4000; .FILL x00AB:
        \* M[0x3100] = 0x4000 and M[0x4000] = 0x00AB when the first LDI runs,
        \* the pointer of the second is its own instruction word
        [origin |-> \H30FC,
         words |-> <<\H2004, \HB002, \HA201, \HA5FF, \H4000, \H00AB>>],
        \* LDI R1,#2 at 0xFFFD; JSR +1 at 0xFFFE: the pointer is read from
        \* address 0 and the target of the JSR is address 0
        [origin |-> \HFFFD, words |-> <<\HA202, \H4801>>],
        BranchProgram
    } \cup {AddProgram(a, b) : a, b \in AluWords}

\* the images loaded in SpecExec
ExecImages == {ImageOf(p.origin, p.words) : p \in ExecPrograms \cup Programs}

NextExec ==
    \/ StepCall
    \/ \E image \in ExecImages : LoadFile(image)
    \/ \E image \in ExecImages : LoadWasm(image)

SpecExec == Init /\ [][NextExec]_vars

----------------------------------------------------------------------------
(* SpecMain: the command-line interpreter of main.rs, a copy of the VM with *)
(* its own Memory (no cell at 0xFE04), a blocking getchar and a loop that   *)
(* ends at break, abort() or a panic.  Its Registers, sign_extend and       *)
(* read_image are the same code as the library's.                           *)

\* Memory::read of main.rs
MainRead(s, addr) ==
    IF addr = KEYBOARD_STATUS_ADDR
    THEN Load(Poll(get_char([s EXCEPT !.reads = @ \cup {addr}])), addr)
    ELSE Load([s EXCEPT !.reads = @ \cup {addr}], addr)

\* let instruction = memory.read(pc), after PC took the value in s.val
MainFetch(s, pc) ==
    IF s.fault THEN s
    ELSE MainRead([s EXCEPT !.registers.program_count = s.val], pc)

\* Registers::next of main.rs
MainNext(s) ==
    Latch(MainFetch(AddOne(s, s.registers.program_count),
                    s.registers.program_count))

\* memory.read(<the word just read>)
MainReadRead(s) == MainRead(s, s.val)

\* reg.set(0, c as u16), c = getchar() in s.val
MainGotChar(s) == set([s EXCEPT !.trapc = s.val], 0, s.val)

RECURSIVE main_puts_loop(_, _)
\* the loop again after c += 1 left the new c in s.val
MainPutsNext(s) == IF s.fault THEN s ELSE main_puts_loop(s, s.val)

\* the body of the loop of TRAP PUTS, the word of the condition in s.val
MainPutsBody(s, c) ==
    IF s.val = 0 THEN s ELSE MainPutsNext(AddOne(EmitLow(MainRead(s, c)), c))

\* TRAP PUTS of main.rs
main_puts_loop(s, c) == MainPutsBody(MainRead(s, c), c)

RECURSIVE main_putsp_loop(_, _)
\* the loop again after c += 1 left the new c in s.val
MainPutspNext(s) == IF s.fault THEN s ELSE main_putsp_loop(s, s.val)

\* the body of the loop of TRAP PUTSP, the word of the condition in s.val
MainPutspBody(s, c) ==
    IF s.val = 0 THEN s
    ELSE MainPutspNext(AddOne(EmitHigh(MainRead(EmitLow(MainRead(s, c)), c)), c))

\* TRAP PUTSP of main.rs
main_putsp_loop(s, c) == MainPutspBody(MainRead(s, c), c)

\* the match on the trap vector of main.rs, after R7 is written: HALT
\* breaks, the None arm prints "Unknown TRAP" and nothing else
MainService(s, vec) ==
    CASE vec = TRAP_GETC  -> MainGotChar(get_char(s))
      [] vec = TRAP_OUT   -> put_char(s, s.registers.r[0] % 256)
      [] vec = TRAP_PUTS  -> main_puts_loop(s, s.registers.r[0])
      [] vec = TRAP_IN    -> MainGotChar(EmitLow(get_char(s)))
      [] vec = TRAP_PUTSP -> main_putsp_loop(s, s.registers.r[0])
      [] vec = TRAP_HALT  -> Return(s, "Break")
      [] OTHER            -> s

\* the match on op of main.rs
MainExec(s, instr) ==
    LET op  == Shr(instr, 12)
        dr  == Shr(instr, 9) % 8
        sr1 == Shr(instr, 6) % 8
    IN  CASE op = OP_ADD -> set(s, dr, U16(get(s, sr1) + Operand(s, instr)))
          [] op = OP_AND -> set(s, dr, BitAnd(get(s, sr1), Operand(s, instr)))
          [] op = OP_NOT -> set(s, dr, BitNot(get(s, sr1)))
          [] op = OP_BR  ->
                IF BitAnd(dr, s.registers.condition) # 0
                THEN [s EXCEPT !.registers.program_count = PcOffset9(s, instr)]
                ELSE s
          [] op = OP_JMP -> [s EXCEPT !.registers.program_count = get(s, sr1)]
          [] op = OP_JSR -> Jump(LinkR7(s), instr)
          [] op = OP_LD  -> SetRead(MainRead(s, PcOffset9(s, instr)), dr)
          [] op = OP_LDI -> SetRead(MainReadRead(MainRead(s, PcOffset9(s, instr))), dr)
          [] op = OP_LDR -> SetRead(MainRead(s, BaseOffset6(s, instr)), dr)
          [] op = OP_LEA -> set(s, dr, PcOffset9(s, instr))
          [] op = OP_ST  -> write(s, PcOffset9(s, instr), get(s, dr))
          [] op = OP_STI -> WriteRead(MainRead(s, PcOffset9(s, instr)), dr)
          [] op = OP_STR -> write(s, BaseOffset6(s, instr), get(s, dr))
          [] op = OP_TRAP -> MainService(LinkR7(s), instr % 256)
          [] op = OP_RES -> Return(s, "Abort")
          [] op = OP_RTI -> Return(s, "Abort")
          [] OTHER       -> Return(s, "Break")

\* the match on op, unless the fetch panicked
MainDispatch(s) == IF s.fault THEN s ELSE MainExec(s, s.instr)

\* the end of the loop's body: the loop goes on unless an arm left it
MainTail(s) ==
    IF s.fault \/ s.status # "None" THEN s ELSE Return(s, "Continue")

\* one iteration of the loop of main under the oracle host
main_iteration(host) == MainTail(MainDispatch(MainNext(Ctx(host))))

\* what an iteration of the loop of main that ended in context s did
MainRecord(s) == [StepRecord(s) EXCEPT !.kind = "main"]

\* main: read_image of one argument; an error exits with code 1
MainLoad(image) ==
    /\ target = "unix" /\ driver.loop = "idle" /\ ~fault /\ nloads < MaxLoads
    /\ LET ri == read_image(memory, image)
       IN  /\ ld' = LoadRecord(image, ri)
           /\ fault' = ri.fault
           /\ memory' = ri.memory
           /\ IF ri.ok /\ ~ri.fault
              THEN /\ registers' = [registers EXCEPT !.program_count = ri.addr]
                   /\ driver' = driver
              ELSE /\ registers' = registers
                   /\ driver' = [loop |-> "exited", stepped |-> FALSE]
    /\ nloads' = nloads + 1
    /\ UNCHANGED <<target, checked, halted, last, prev, nsteps, mop, sx>>

\* main: the arguments are loaded and the loop is entered
MainLoop ==
    /\ target = "unix" /\ driver.loop = "idle" /\ ~fault /\ nloads >= 1
    /\ driver' = [loop |-> "main", stepped |-> FALSE]
    /\ UNCHANGED <<target, checked, halted, memory, registers, fault,
                   last, prev, nsteps, nloads, ld, mop, sx>>

\* main: one iteration of the loop
MainIter ==
    /\ driver.loop = "main" /\ ~fault /\ nsteps < MaxSteps
    /\ \E host \in Hosts :
         LET s == main_iteration(host)
         IN  /\ memory' = s.memory
             /\ registers' = s.registers
             /\ fault' = s.fault
             /\ last' = MainRecord(s)
             /\ driver' = IF s.status = "Break"
                          THEN [loop |-> "exited", stepped |-> TRUE]
                          ELSE IF s.status = "Abort"
                          THEN [loop |-> "aborted", stepped |-> TRUE]
                          ELSE [driver EXCEPT !.stepped = TRUE]
    /\ prev' = last
    /\ nsteps' = nsteps + 1
    /\ UNCHANGED <<target, checked, halted, nloads, ld, mop, sx>>

NextMain ==
    \/ \E image \in ExecImages \cup {<<>>, <<\H30>>} : MainLoad(image)
    \/ MainLoop
    \/ MainIter

SpecMain == Init /\ [][NextMain]_vars

----------------------------------------------------------------------------
(* SpecImage: read_image applied once to the memory of a new VM *)

\* the origins and the data words of the images handed to read_image
ImageOrigins == {\H0000, \H0001, \H3000, \HFFFD, \HFFFE, \HFFFF}
ImageWords == {\H1234, \H00FF}

\* whole images, images with one trailing byte, and a stream of one byte
LoaderImages ==
    LET whole == {ImageOf(o, ws) : o \in ImageOrigins,
                                   ws \in SeqsUpTo(ImageWords, MaxImageWords)}
    IN  whole \cup {Append(image, \H56) : image \in whole} \cup {<<>>, <<\H30>>}

\* read_image(&mut vm.memory, image), once
ReadImageOnce(image) ==
    /\ ld.kind = "none"
    /\ LET ri == read_image(memory, image)
       IN  /\ ld' = LoadRecord(image, ri)
           /\ memory' = ri.memory
           /\ fault' = ri.fault
    /\ UNCHANGED <<target, checked, halted, registers, driver, last, prev,
                   nsteps, nloads, mop, sx>>

NextImage == \E image \in LoaderImages : ReadImageOnce(image)

SpecImage == Init /\ [][NextImage]_vars

----------------------------------------------------------------------------
(* SpecMem: Memory::write and Memory::read called on the memory of a new VM *)

MemAddrs == {\H0000, \H3000, \HFE00, \HFE02, \HFE04, \HFFFF}
MemWords == {\H0000, \H0001, \H8000}

\* the operations done so far
MemOps == mop.n

\* memory.write(addr, val)
MemWrite(addr, val) ==
    /\ MemOps < MaxMemOps
    /\ memory' = write(Ctx(<<>>), addr, val).memory
    /\ mop' = [kind |-> "write", addr |-> addr, val |-> val, ret |-> 0,
               after |-> mop.kind, n |-> MemOps + 1,
               polls |-> <<>>, before |-> memory]
    /\ UNCHANGED <<target, checked, halted, registers, fault, driver, last,
                   prev, nsteps, nloads, ld, sx>>

\* memory.read(addr), the host answering c to get_char; val is the value
\* the call before it wrote to addr, when that call was a write to addr,
\* polls the bytes get_char returned and before the memory before the call
MemRead(addr, c) ==
    /\ MemOps < MaxMemOps
    /\ LET s == read(Ctx(<<c>>), addr)
       IN  /\ memory' = s.memory
           /\ mop' = [kind |-> "read", addr |-> addr,
                      val |-> IF mop.kind = "write" /\ mop.addr = addr
                              THEN mop.val ELSE -1,
                      ret |-> s.val, after |-> mop.kind, n |-> MemOps + 1,
                      polls |-> s.polls, before |-> memory]
    /\ UNCHANGED <<target, checked, halted, registers, fault, driver, last,
                   prev, nsteps, nloads, ld, sx>>

NextMem ==
    \/ \E addr \in MemAddrs, val \in MemWords : MemWrite(addr, val)
    \/ \E addr \in MemAddrs, c \in InputBytes : MemRead(addr, c)

SpecMem == Init /\ [][NextMem]_vars

----------------------------------------------------------------------------
(* SpecSext: sign_extend called once on a word and a bit count *)

\* the words and the bit counts sign_extend is called with
SextWords ==
    {\H0000, \H0001, \H000F, \H0010, \H001F, \H0020, \H00FF, \H0100,
     \H1234, \H4000, \H7FFF, \H8000, \HFFF0, \HFFFF}
SextBits == 1..16

\* sign_extend(x, n), and sign_extend of what it returned
SignExtendCall(x, n) ==
    /\ sx.kind = "none"
    /\ IF checked /\ shl_overflows(x, n)
       THEN /\ fault' = TRUE
            /\ sx' = [kind |-> "call", orig |-> x, bit_count |-> n,
                      ret |-> -1, again |-> -1]
       ELSE /\ fault' = fault
            /\ sx' = [kind |-> "call", orig |-> x, bit_count |-> n,
                      ret |-> sign_extend(x, n),
                      again |-> sign_extend(sign_extend(x, n), n)]
    /\ UNCHANGED <<target, checked, halted, memory, registers, driver, last,
                   prev, nsteps, nloads, ld, mop>>

NextSext == \E x \in SextWords, n \in SextBits : SignExtendCall(x, n)

SpecSext == Init /\ [][NextSext]_vars

----------------------------------------------------------------------------
(* The claims *)

\* the instruction is TRAP with the vector vec
IsTrap(instr, vec) == Shr(instr, 12) = OP_TRAP /\ instr % 256 = vec

\* the most recent call of step executed TRAP GETC or TRAP IN
LastIsInputTrap ==
    /\ last.kind = "step"
    /\ last.trapc # -1
    /\ IsTrap(last.instr, TRAP_GETC) \/ IsTrap(last.instr, TRAP_IN)

\* C1: in VM::run, once a call of step has returned Halted the loop exits:
\* the next thing run does is return, and it executes no further step.
C1_HaltedIsTerminal ==
    [][(driver.loop = "run" /\ driver.stepped /\ last.status = "Halted")
          => (driver'.loop = "idle" /\ nsteps' = nsteps)]_vars

\* C2: a step that executes TRAP GETC or TRAP IN while get_char returns 0
\* returns HardInterrupt with PC the address the TRAP was fetched from and
\* R0 as it was before the step.
C2_SuspendRestoresPC ==
    (LastIsInputTrap /\ last.trapc = 0)
        => /\ ~fault
           /\ last.status = "HardInterrupt"
           /\ registers.program_count = last.pc
           /\ registers.r[0] = last.registers.r[0]

\* a TRAP IN fetched from 0xFFFF found no input while R0 held a character
C2_Witness ==
    /\ LastIsInputTrap /\ last.trapc = 0
    /\ last.pc = \HFFFF
    /\ last.registers.r[0] # 0
    /\ last.status = "HardInterrupt"

\* C3: after a step that returned HardInterrupt, R0..R7, COND and every
\* memory cell hold the values they had before the step.
C3_SuspensionIsAtomic ==
    (last.kind = "step" /\ last.status = "HardInterrupt")
        => /\ registers.r = last.registers.r
           /\ registers.condition = last.registers.condition
           /\ memory = last.memory

\* C4: the step after a TRAP GETC at A that returned HardInterrupt executes
\* that TRAP again; when get_char then returns a byte b # 0 it ends with
\* R0 = b, COND = P, PC = A + 1 (mod 2^16) and a status other than
\* HardInterrupt; when get_char returns 0 again it ends suspended with PC = A.
C4_Resumption ==
    (last.kind = "step" /\ prev.kind = "step"
       /\ prev.status = "HardInterrupt" /\ IsTrap(prev.instr, TRAP_GETC))
        => /\ ~fault
           /\ last.pc = prev.pc
           /\ last.instr = prev.instr
           /\ last.trapc # -1
           /\ last.trapc # 0 =>
                 /\ registers.r[0] = last.trapc
                 /\ registers.condition = FLAG_P
                 /\ registers.program_count = U16(prev.pc + 1)
                 /\ last.status \in {"Continue", "SoftInterrupt"}
           /\ last.trapc = 0 =>
                 /\ registers.program_count = prev.pc
                 /\ last.status = "HardInterrupt"

\* a suspended GETC was resumed with the byte 0xFF after being resumed
\* with no input
C4_Witness ==
    /\ last.kind = "step" /\ prev.kind = "step"
    /\ prev.status = "HardInterrupt" /\ IsTrap(prev.instr, TRAP_GETC)
    /\ nsteps >= 3
    /\ last.trapc = \HFF
    /\ registers.r[0] = \HFF
    /\ last.status = "Continue"

\* C5: a step that read 0xFE00 and ended in neither Halted nor HardInterrupt
\* returned SoftInterrupt.  Stated of the wasm build, the one whose step has
\* the status tail.
C5_PollImpliesSoftInterrupt ==
    (target = "wasm" /\ last.kind = "step" /\ ~fault
       /\ last.status \notin {"Halted", "HardInterrupt"}
       /\ KEYBOARD_STATUS_ADDR \in last.reads)
        => last.status = "SoftInterrupt"

\* C6: a step returns SoftInterrupt only if one of its reads addressed 0xFE00.
C6_SoftInterruptOnlyAfterPoll ==
    (last.kind = "step" /\ last.status = "SoftInterrupt")
        => KEYBOARD_STATUS_ADDR \in last.reads

\* C7: Memory.write(a, v) immediately followed by Memory.read(a) returns v,
\* for every a other than 0xFE00 and 0xFE02.
C7_WriteReadRoundTrip ==
    (mop.kind = "read" /\ mop.val # -1
       /\ mop.addr \notin {KEYBOARD_STATUS_ADDR, KEYBOARD_DATA_ADDR})
        => mop.ret = mop.val

\* the origin and the data of an image, decoded big-endian
OriginOf(image) == image[1] * 256 + image[2]
DataWords(image) == (Len(image) - 2) \div 2
DataWord(image, i) == image[2 * i + 3] * 256 + image[2 * i + 4]

\* C8: for an image of an origin O and N <= 2^16 - O whole data words,
\* read_image returns Ok(O) and leaves M[O + i] equal to the i-th data word.
C8_ImageRoundTrip ==
    (ld.kind = "load" /\ Len(ld.image) >= 2 /\ Len(ld.image) % 2 = 0
       /\ DataWords(ld.image) <= 65536 - OriginOf(ld.image))
        => /\ ld.ok /\ ~fault
           /\ ld.addr = OriginOf(ld.image)
           /\ \A i \in 0..(DataWords(ld.image) - 1) :
                 MemGet(memory, OriginOf(ld.image) + i) = DataWord(ld.image, i)

\* C9: read_image returns an error for an image whose data ends with a
\* single trailing byte.
C9_OddTrailingByteIsError ==
    (ld.kind = "load" /\ Len(ld.image) >= 3 /\ Len(ld.image) % 2 = 1)
        => ~ld.ok

\* C10: for an image with more data words than fit above its origin O,
\* read_image returns Ok(O) without a panic and writes no cell below O;
\* with origin 0xFFFE and four data words it writes exactly M[0xFFFE] and
\* M[0xFFFF], the first two data words.
C10_OverlongStopsCleanly ==
    (ld.kind = "load" /\ Len(ld.image) >= 2
       /\ DataWords(ld.image) > 65536 - OriginOf(ld.image))
        => /\ ld.ok /\ ~fault
           /\ ld.addr = OriginOf(ld.image)
           /\ \A a \in ld.written : a >= OriginOf(ld.image)
           /\ (OriginOf(ld.image) = \HFFFE /\ DataWords(ld.image) = 4) =>
                 /\ ld.written = {\HFFFE, \HFFFF}
                 /\ MemGet(memory, \HFFFE) = DataWord(ld.image, 0)
                 /\ MemGet(memory, \HFFFF) = DataWord(ld.image, 1)

\* an image of origin 0xFFFE and four data words was loaded
C10_Witness ==
    /\ ld.kind = "load" /\ ld.ok
    /\ OriginOf(ld.image) = \HFFFE /\ DataWords(ld.image) = 4
    /\ ld.written = {\HFFFE, \HFFFF}

\* the opcode of the instruction the most recent step fetched
LastOp == Shr(last.instr, 12)

\* C11: a fetch reads the word at the old PC and leaves PC one higher modulo
\* 2^16, without a panic, at every PC, 0xFFFF included.  The PC the fetch
\* left is R7 after JSR, JSRR and TRAP, and PC itself after the instructions
\* that do not assign it; the word at 0xFE00 is the device's, refreshed by
\* the read.
C11_FetchAdvancesPC ==
    (last.kind = "step")
        => /\ ~fault
           /\ last.pc # KEYBOARD_STATUS_ADDR
                 => last.instr = MemGet(last.memory, last.pc)
           /\ LastOp \in {OP_JSR, OP_TRAP}
                 => registers.r[7] = (last.pc + 1) % 65536
           /\ (LastOp \notin {OP_BR, OP_JMP, OP_JSR, OP_TRAP})
                 => registers.program_count = (last.pc + 1) % 65536

\* the general register the most recent step wrote last, -1 when it wrote none
LastWritten ==
    IF LastOp \in {OP_ADD, OP_AND, OP_NOT, OP_LD, OP_LDI, OP_LDR, OP_LEA}
    THEN Shr(last.instr, 9) % 8
    ELSE IF LastOp = OP_TRAP /\ last.trapc > 0 THEN 0
    ELSE IF LastOp \in {OP_JSR, OP_TRAP} THEN 7
    ELSE -1

\* Z for 0, N for a word with bit 15 set, P for any other word
SignFlag(value) ==
    IF value = 0 THEN 2 ELSE IF value >= 32768 THEN 4 ELSE 1

\* C12: after a step that wrote a general register (the destination of ADD,
\* AND, NOT, LD, LDI, LDR, LEA, R0 in GETC and IN, R7 in JSR, JSRR and TRAP),
\* COND is the flag of the sign of the value written.
C12_CondFollowsRegisterWrite ==
    (last.kind = "step" /\ ~fault /\ LastWritten # -1)
        => registers.condition = SignFlag(registers.r[LastWritten])

\* C13: in every state reached by loads and steps COND is exactly one of
\* N (0b100), Z (0b010) and P (0b001).
C13_CondIsOneHot == registers.condition \in {1, 2, 4}

\* a step has written a word with bit 15 set to a register through set
C13_Witness ==
    /\ last.kind = "step" /\ ~fault
    /\ LastWritten \in 0..6
    /\ registers.r[LastWritten] >= 32768
    /\ registers.condition = 4

\* the instructions that halt: TRAP HALT, a TRAP whose vector is outside
\* x20..x25, RTI and RES
HaltingInstruction(instr) ==
    \/ Shr(instr, 12) \in {8, 13}
    \/ Shr(instr, 12) = 15 /\ (instr % 256 = 37 \/ instr % 256 \notin 32..37)

\* C14: a step that returns returns Halted exactly when the instruction it
\* fetched is TRAP HALT, a TRAP with a vector outside x20..x25, RTI or RES,
\* and otherwise returns Continue, SoftInterrupt or HardInterrupt.
C14_HaltedExactlyOnHaltingInstruction ==
    (last.kind = "step" /\ ~fault)
        => /\ last.status = "Halted" <=> HaltingInstruction(last.instr)
           /\ last.status \in
                 {"Halted", "Continue", "SoftInterrupt", "HardInterrupt"}

\* a step fetched TRAP x26 and returned Halted
C14_Witness ==
    /\ last.kind = "step" /\ ~fault
    /\ last.instr = \HF026
    /\ last.status = "Halted"

RECURSIVE StringAt(_, _)
\* the low bytes of the words of m from address c up to, and without, the
\* first word that is zero (or the end of memory)
StringAt(m, c) ==
    IF MemGet(m, c) = 0 THEN <<>>
    ELSE <<MemGet(m, c) % 256>> \o (IF c = 65535 THEN <<>> ELSE StringAt(m, c + 1))

ExtensionOf(v, n) == IF v >= 2 ^ (n - 1) THEN v + 65536 - 2 ^ n ELSE v

\* the operand of the ADD the most recent step executed, from the registers
\* before the step: sext(IMM5) or R[SR2]
LastAddOperand ==
    IF Shr(last.instr, 5) % 2 = 1
    THEN ExtensionOf(last.instr % 32, 5)
    ELSE last.registers.r[last.instr % 8]

\* the registers ADD DR,B,A leaves when executed in place of the ADD DR,A,B
\* of the most recent step
SwappedAdd ==
    LET dr == Shr(last.instr, 9) % 8
        a  == Shr(last.instr, 6) % 8
        b  == last.instr % 8
    IN  Exec([Ctx(<<>>) EXCEPT !.registers = last.registers],
             4096 + 512 * dr + 64 * b + a).registers

\* C19: ADD leaves (R[SR1] + operand) mod 2^16 in DR, the operand R[SR2] or
\* sext(IMM5), and COND the flag of that result (0xFFFF + 1 gives 0 and Z);
\* in register form ADD DR,B,A leaves the same DR and COND as ADD DR,A,B.
C19_AddWraps ==
    (last.kind = "step" /\ ~fault /\ LastOp = OP_ADD)
        => LET dr  == Shr(last.instr, 9) % 8
               sum == (last.registers.r[Shr(last.instr, 6) % 8] + LastAddOperand)
                          % 65536
           IN  /\ registers.r[dr] = sum
               /\ registers.condition = SignFlag(sum)
               /\ Shr(last.instr, 5) % 2 = 0
                     => /\ SwappedAdd.r[dr] = registers.r[dr]
                        /\ SwappedAdd.condition = registers.condition

\* ADD R0,R0,#1 was executed with R0 = 0xFFFF
C19_Witness ==
    /\ last.kind = "step" /\ ~fault
    /\ last.instr = \H1021
    /\ last.registers.r[0] = \HFFFF
    /\ registers.r[0] = 0
    /\ registers.condition = FLAG_Z

\* the image of the conditional-branch scenario is the one image loaded into
\* the VM, whose memory held nothing else
FreshBranch ==
    /\ ld.kind = "load" /\ ld.ok /\ nloads = 1
    /\ ld.image = ImageOf(BranchProgram.origin, BranchProgram.words)

\* C17: with the image of origin 0x3000 and words 0x5020, 0x0403, 0xF025,
\* 0x1021, 0xF025 loaded into a fresh VM, the steps from 0x3000 reach Halted
\* by executing the first HALT, the word at 0x3002, with R0 = 0: the third
\* step is that HALT.
C17_BranchReachesFirstHalt ==
    (FreshBranch /\ nsteps = 3)
        => /\ ~fault
           /\ last.pc = \H3002
           /\ last.status = "Halted"
           /\ registers.r[0] = 0

\* C17, amended: the BRz at 0x3001 is taken to 0x3005 = 0x3002 + 3, past the
\* image, so the HALT at 0x3002 is not executed: after the second step
\* R0 = 0, COND = Z and PC = 0x3005, and each step after it fetches a zero
\* word, a BR that is never taken, and returns Continue with PC one higher.
C17_BranchSkipsPastImage ==
    FreshBranch
        => /\ ~fault
           /\ nsteps >= 1 => (registers.r[0] = 0 /\ registers.condition = FLAG_Z)
           /\ nsteps = 1 => (last.instr = \H5020 /\ registers.program_count = \H3001)
           /\ nsteps = 2 => (last.instr = \H0403 /\ last.pc = \H3001)
           /\ nsteps >= 2 =>
                 /\ registers.program_count = \H3005 + (nsteps - 2)
                 /\ last.status = "Continue"
           /\ nsteps >= 3 =>
                 /\ last.pc = \H3005 + (nsteps - 3)
                 /\ last.instr = 0

\* two steps after the branch have run through the zero words above the image
C17_Witness ==
    /\ FreshBranch /\ ~fault
    /\ nsteps = 4
    /\ prev.pc = \H3005
    /\ last.pc = \H3006
    /\ registers.program_count = \H3007
    /\ registers.r[0] = 0

\* C15: in the loop of main.rs a TRAP whose vector is outside x20..x25 is a
\* fatal halt: after the iteration that fetched it the loop has stopped, and
\* no further instruction is fetched.
C15_MainUnknownTrapStopsLoop ==
    (last.kind = "main" /\ ~fault
       /\ Shr(last.instr, 12) = OP_TRAP /\ last.instr % 256 \notin 32..37)
        => driver.loop # "main"

\* C18: sign_extend(x, 16) returns x for every word x, those with bit 15 set
\* included, and does not panic.
C18_SignExtend16IsIdentity ==
    (sx.kind = "call" /\ sx.bit_count = 16)
        => /\ ~fault
           /\ sx.ret = sx.orig

\* C20: for every word x and every n in 1..15, sign_extend(x, n) is the
\* 16-bit two's-complement extension of x mod 2^n, so it depends on the low
\* n bits of x alone, and sign_extend applied to its own result with the
\* same n returns that result.
C20_SignExtendLowBits ==
    (sx.kind = "call" /\ sx.bit_count \in 1..15)
        => /\ ~fault
           /\ sx.ret = ExtensionOf(sx.orig % (2 ^ sx.bit_count), sx.bit_count)
           /\ sx.again = sx.ret

\* C21: Memory.read(0xFE00) calls get_char exactly once before the word is
\* returned; for a byte c # 0 it returns 0x8000 and leaves M[0xFE00] = 0x8000
\* and M[0xFE02] = c; for 0 it returns 0, leaves M[0xFE00] = 0 and M[0xFE02]
\* as it was; the word returned is the status after the poll.
C21_StatusReadPollsOnce ==
    (mop.kind = "read" /\ mop.addr = KEYBOARD_STATUS_ADDR)
        => /\ Len(mop.polls) = 1
           /\ mop.ret = MemGet(memory, KEYBOARD_STATUS_ADDR)
           /\ mop.polls[1] # 0 =>
                 /\ mop.ret = 32768
                 /\ MemGet(memory, KEYBOARD_DATA_ADDR) = mop.polls[1]
           /\ mop.polls[1] = 0 =>
                 /\ mop.ret = 0
                 /\ MemGet(memory, KEYBOARD_DATA_ADDR)
                        = MemGet(mop.before, KEYBOARD_DATA_ADDR)

\* the status register was read with no byte waiting after a read of it that
\* found the byte 0x41
C21_Witness ==
    /\ mop.kind = "read" /\ mop.addr = KEYBOARD_STATUS_ADDR
    /\ mop.polls = <<0>>
    /\ MemGet(mop.before, KEYBOARD_STATUS_ADDR) = 32768
    /\ MemGet(memory, KEYBOARD_DATA_ADDR) = \H41
    /\ mop.ret = 0

\* C22: Memory.read of an address other than 0xFE00 returns the word stored
\* there, does not call get_char, and leaves every cell of memory as it was.
C22_OtherReadsHaveNoEffect ==
    (mop.kind = "read" /\ mop.addr # KEYBOARD_STATUS_ADDR)
        => /\ mop.ret = MemGet(mop.before, mop.addr)
           /\ mop.polls = <<>>
           /\ memory = mop.before

\* C27: no step takes the "invalid operation" arm of the decode: whatever
\* word is fetched, its bits 15..12 are the discriminant of a variant of OP.
C27_DecodeErrorUnreachable ==
    last.kind = "step" => ~last.invalid

\* a step fetched the reserved opcode, which decodes to OP::RES
C27_Witness ==
    /\ last.kind = "step" /\ ~fault
    /\ last.instr = \HD000
    /\ last.status = "Halted"
    /\ ~last.invalid

\* the VM as the fetch of the last step left it: the fetch replayed from the
\* state the step started in, with the bytes the host gave
AfterFetch ==
    next([Ctx(last.polls) EXCEPT !.memory = last.memory,
                                 !.registers = last.registers])

\* C23: a step that executes JSR or JSRR leaves in R7 the PC the fetch left
\* and then sets PC: in the long form to that PC plus sext(offset11) modulo
\* 2^16, in the short form to R[BaseR] as it is after R7 was written, so that
\* JSRR R7 leaves PC where the fetch put it; R0..R6 keep their values and
\* memory is as the fetch left it.
C23_JsrLinksThenJumps ==
    (last.kind = "step" /\ ~fault /\ LastOp = OP_JSR)
        => LET pc    == AfterFetch.registers.program_count
               baser == Shr(last.instr, 6) % 8
           IN  /\ registers.r[7] = pc
               /\ IF Shr(last.instr, 11) % 2 = 1
                  THEN registers.program_count =
                           (pc + ExtensionOf(last.instr % 2048, 11)) % 65536
                  ELSE registers.program_count =
                           IF baser = 7 THEN pc ELSE last.registers.r[baser]
               /\ \A i \in 0..6 : registers.r[i] = last.registers.r[i]
               /\ memory = AfterFetch.memory

\* JSRR R7 at 0x3001, fetched while the keyboard-polled cell was set: PC and
\* R7 are both 0x3002, not the 0 that R7 held
C23_Witness ==
    /\ last.kind = "step" /\ ~fault
    /\ last.instr = \H41C0
    /\ last.pc = \H3001
    /\ MemGet(last.memory, KEYBOARD_CHECK_ADDR) = 1
    /\ last.registers.r[7] = 0
    /\ registers.r[7] = \H3002
    /\ registers.program_count = \H3002

\* the cells a read can change: keyboard status, keyboard data and the
\* keyboard-polled flag
DeviceCells == {KEYBOARD_STATUS_ADDR, KEYBOARD_DATA_ADDR, KEYBOARD_CHECK_ADDR}

\* the word a read of addr returns from memory m when a read of the status
\* register meets the byte c of the host
WordRead(m, addr, c) ==
    IF addr = KEYBOARD_STATUS_ADDR
    THEN IF c # 0 THEN 32768 ELSE 0
    ELSE MemGet(m, addr)

\* the byte the host gave to the one poll of the last step, 0 without a poll
LastPolled == IF last.polls = <<>> THEN 0 ELSE last.polls[1]

\* C24: a step that executes LDI reads the pointer p at (PC the fetch left +
\* sext(offset9)) modulo 2^16, then loads DR with the word read at p and sets
\* COND to the sign of that word; PC stays where the fetch left it, the other
\* registers keep their values, and no cell other than the three device cells
\* changes.
C24_LdiLoadsThroughPointer ==
    (last.kind = "step" /\ ~fault /\ LastOp = OP_LDI)
        => LET pc == AfterFetch.registers.program_count
               m0 == AfterFetch.memory
               dr == Shr(last.instr, 9) % 8
               a  == (pc + ExtensionOf(last.instr % 512, 9)) % 65536
               p  == WordRead(m0, a, LastPolled)
               v  == WordRead(m0, p, LastPolled)
           IN  /\ registers.r[dr] = v
               /\ registers.condition = SignFlag(v)
               /\ registers.program_count = pc
               /\ \A i \in 0..7 \ {dr} : registers.r[i] = last.registers.r[i]
               /\ \A x \in (DOMAIN memory \cup DOMAIN last.memory) \ DeviceCells :
                      MemGet(memory, x) = MemGet(last.memory, x)
               /\ Len(last.polls) =
                      IF KEYBOARD_STATUS_ADDR \in {a, p} THEN 1 ELSE 0

\* LDI R1,#1 at 0x30FE with M[0x3100] = 0x4000 and M[0x4000] = 0x00AB:
\* R1 = 0x00AB and COND = P
C24_Witness ==
    /\ last.kind = "step" /\ ~fault
    /\ last.instr = \HA201
    /\ last.pc = \H30FE
    /\ MemGet(last.memory, \H3100) = \H4000
    /\ MemGet(last.memory, \H4000) = \H00AB
    /\ last.registers.r[1] = 0
    /\ registers.r[1] = \H00AB
    /\ registers.condition = FLAG_P

\* C25: a step that executes TRAP PUTS returns, without a panic, whatever R0
\* and memory hold, also when every word from R0 to 0xFFFF is nonzero and
\* the scan goes on past 0xFFFF.
C25_PutsAlwaysReturns ==
    (last.kind = "step" /\ IsTrap(last.instr, TRAP_PUTS))
        => /\ ~fault
           /\ last.status \in {"Continue", "SoftInterrupt"}

\* C26: a step returns HardInterrupt only when the instruction it fetched is
\* TRAP GETC or TRAP IN and the get_char of that TRAP, the last call the step
\* made to the host, returned 0: a step of any other instruction, and an
\* input TRAP that got a nonzero byte, return another status.
C26_HardInterruptOnlyOnEmptyInput ==
    (last.kind = "step" /\ last.status = "HardInterrupt")
        => /\ IsTrap(last.instr, TRAP_GETC) \/ IsTrap(last.instr, TRAP_IN)
           /\ last.trapc = 0
           /\ last.polls # <<>>
           /\ last.polls[Len(last.polls)] = 0

\* a TRAP IN that found no input was suspended, and the step before it was
\* a TRAP GETC that got 'A' and went on
C26_Witness ==
    /\ last.kind = "step" /\ IsTrap(last.instr, TRAP_IN)
    /\ last.polls = <<0>>
    /\ last.status = "HardInterrupt"
    /\ prev.kind = "step" /\ IsTrap(prev.instr, TRAP_GETC)
    /\ prev.polls = <<65>>
    /\ prev.status # "HardInterrupt"

====
